---- MODULE Spec2Model ----
(***************************************************************************)
(* A model of mailer/base.py (SMTPMailer: connect, close, send_email,      *)
(* send_email_async) and of the helpers of mailer/utils.py it calls.       *)
(*                                                                         *)
(* Strings are sequences of one-character strings, so that the regular     *)
(* expression of validate_email and the ', '.join of format_email_list are *)
(* computed, not assumed.  The SMTP server is the environment: every       *)
(* transport call (SMTP(), SMTP_SSL(), starttls, login, sendmail, quit)    *)
(* either succeeds or raises, chosen nondeterministically.                 *)
(***************************************************************************)
EXTENDS Naturals, Sequences, FiniteSets

\* ------------------------------------------------------------------ bounds
\* longest to / cc / bcc list a caller passes
MaxRcpt == 1
\* longest attachment list a caller passes
MaxAtt == 2
\* transport connections opened in one behaviour
MaxConns == 2

\* ----------------------------------------------------------------- strings
Lower == {"a","b","c","d","e","f","g","h","i","j","k","l","m",
          "n","o","p","q","r","s","t","u","v","w","x","y","z"}
Upper == {"A","B","C","D","E","F","G","H","I","J","K","L","M",
          "N","O","P","Q","R","S","T","U","V","W","X","Y","Z"}
Letter == Lower \cup Upper
Digit == {"0","1","2","3","4","5","6","7","8","9"}
\* [a-zA-Z0-9._%+-]
LocalCh == Letter \cup Digit \cup {".", "_", "%", "+", "-"}
\* [a-zA-Z0-9.-]
DomainCh == Letter \cup Digit \cup {".", "-"}

AllIn(s, lo, hi, C) == \A k \in lo..hi : s[k] \in C

\* s contains a as a substring
Contains(s, a) ==
    \E i \in 1..(Len(s) + 1) :
        /\ i + Len(a) - 1 <= Len(s)
        /\ SubSeq(s, i, i + Len(a) - 1) = a

SeqUpTo(S, n) == UNION {[1..k -> S] : k \in 0..n}

\* Python's None, and the tagged values of an Optional / Union field
None == [kind |-> "none", v |-> <<>>]
Str(s) == [kind |-> "str", v |-> s]
List(l) == [kind |-> "list", v |-> l]
\* Python truthiness of None, a str or a list
Truthy(x) == x.kind # "none" /\ x.v # <<>>

\* re.match(r'^[a-zA-Z0-9._%+-]+@[a-zA-Z0-9.-]+\.[a-zA-Z]{2,}$', email);
\* '$' also matches just before a trailing newline.
validate_email(email) ==
    LET n == Len(email)
        ends == {n} \cup (IF n > 0 /\ email[n] = "\n" THEN {n - 1} ELSE {})
    IN \E e \in ends : \E i \in 2..e : \E j \in (i + 2)..e :
          /\ email[i] = "@"
          /\ AllIn(email, 1, i - 1, LocalCh)
          /\ email[j] = "."
          /\ AllIn(email, i + 1, j - 1, DomainCh)
          /\ e - j >= 2
          /\ AllIn(email, j + 1, e, Letter)

\* isinstance(emails, str): emails = [emails]
AsList(emails) == IF emails.kind = "str" THEN <<emails.v>> ELSE emails.v

\* validate_emails that accepts every address
validate_emails_lax(emails) ==
    [ok |-> TRUE, v |-> AsList(emails), bad |-> <<>>]

\* validate_emails: the list itself, or ValueError naming the first invalid
\* address.  [ok, v, bad]
validate_emails(emails) ==
    LET l == AsList(emails)
        badIdx == {k \in 1..Len(l) : ~validate_email(l[k])}
    IN IF badIdx = {}
       THEN [ok |-> TRUE, v |-> l, bad |-> <<>>]
       ELSE LET first == CHOOSE k \in badIdx : \A k2 \in badIdx : k <= k2
            IN [ok |-> FALSE, v |-> <<>>, bad |-> l[first]]

RECURSIVE Join(_)
\* ', '.join(emails)
Join(l) ==
    IF Len(l) = 0 THEN <<>>
    ELSE IF Len(l) = 1 THEN l[1]
    ELSE l[1] \o <<",", " ">> \o Join(Tail(l))

format_email_list(emails) ==
    IF emails.kind = "str" THEN emails.v ELSE Join(emails.v)

\* ---------------------------------------------------------------- filenames
\* the character class [<>:"/\\|?*]
UnsafeCh == {"<", ">", ":", "\"", "/", "\\", "|", "?", "*"}

\* re.sub(unsafe_chars, '_', filename)
ReplaceUnsafe(s) == [k \in 1..Len(s) |-> IF s[k] \in UnsafeCh THEN "_" ELSE s[k]]

\* the limit of utils.py 65 and 67
MaxFilenameLen == 255

\* os.path.splitext (posixpath): the extension starts at the last dot of
\* the last path component, unless only dots come before it there
splitext(p) ==
    LET sep == CHOOSE k \in 0..Len(p) :
                 /\ k = 0 \/ p[k] = "/"
                 /\ \A j \in (k + 1)..Len(p) : p[j] # "/"
        dot == CHOOSE k \in 0..Len(p) :
                 /\ k = 0 \/ p[k] = "."
                 /\ \A j \in (k + 1)..Len(p) : p[j] # "."
    IN IF dot > sep /\ \E j \in (sep + 1)..(dot - 1) : p[j] # "."
       THEN <<SubSeq(p, 1, dot - 1), SubSeq(p, dot, Len(p))>>
       ELSE <<p, <<>>>>

\* name[:MaxFilenameLen - len(ext)]: a Python slice, whose negative end
\* counts from the end of name
SliceTo(name, ext) ==
    IF Len(ext) <= MaxFilenameLen
    THEN SubSeq(name, 1, IF Len(name) < MaxFilenameLen - Len(ext)
                         THEN Len(name) ELSE MaxFilenameLen - Len(ext))
    ELSE SubSeq(name, 1, IF Len(name) > Len(ext) - MaxFilenameLen
                         THEN Len(name) - (Len(ext) - MaxFilenameLen) ELSE 0)

\* utils.py 50-69
sanitize_filename(filename) ==
    LET sanitized == ReplaceUnsafe(filename)
    IN IF Len(sanitized) > MaxFilenameLen
       THEN LET ne == splitext(sanitized)
            IN SliceTo(ne[1], ne[2]) \o ne[2]
       ELSE sanitized

\* ------------------------------------------------------------- attachments
RECURSIVE IndexOf(_, _, _)
\* least k >= from with s[k] = c, or 0
IndexOf(s, c, from) ==
    IF from > Len(s) THEN 0
    ELSE IF s[from] = c THEN from
    ELSE IndexOf(s, c, from + 1)

RECURSIVE LastIndexOf(_, _, _)
\* greatest k <= from with s[k] = c, or 0
LastIndexOf(s, c, from) ==
    IF from < 1 THEN 0
    ELSE IF s[from] = c THEN from
    ELSE LastIndexOf(s, c, from - 1)

\* Path(file_path).name
PathName(p) == SubSeq(p, LastIndexOf(p, "/", Len(p)) + 1, Len(p))

\* content_type.split('/', 1)
Split1(ct) ==
    LET k == IndexOf(ct, "/", 1)
    IN IF k = 0 THEN <<ct>>
       ELSE <<SubSeq(ct, 1, k - 1), SubSeq(ct, k + 1, Len(ct))>>

TextPlain == <<"t","e","x","t","/","p","l","a","i","n">>
OctetStream == <<"a","p","p","/","b","i","n">>
DotTxt == <<".","t","x","t">>

\* mimetypes.guess_type(str(file_path))[0] or 'application/octet-stream'
\* (the type table reduced to the one extension the files here use)
get_content_type(p) ==
    IF Len(p) >= 4 /\ SubSeq(p, Len(p) - 3, Len(p)) = DotTxt
    THEN TextPlain ELSE OctetStream

\* the files that exist on disk
PathNotes == <<"d","/","n",".","t","x","t">>
PathLogo == <<"l",".","p","n","g">>
PathGone == <<"g",".","t","x","t">>
Files == {PathNotes, PathLogo}

Hdr(n, v, fn) == [name |-> n, value |-> v, filename |-> fn]

Attachment == <<"a","t","t","a","c","h","m","e","n","t">>
Inline == <<"i","n","l","i","n","e">>
Base64 == <<"b","a","s","e","6","4">>

\* create_attachment: the MIME part, or the exception it raises
create_attachment(file_path, filename, content_type) ==
    IF file_path \notin Files
    THEN [ok |-> FALSE, err |-> "FileNotFoundError", part |-> <<>>]
    ELSE LET fn == IF filename.kind = "none" THEN PathName(file_path)
                   ELSE filename.v
             ct == IF content_type.kind = "none"
                   THEN get_content_type(file_path) ELSE content_type.v
             ty == Split1(ct)
         IN IF Len(ty) # 2
            THEN [ok |-> FALSE, err |-> "TypeError", part |-> <<>>]
            ELSE [ok |-> TRUE, err |-> "",
                  part |-> [kind |-> "attachment",
                            path |-> file_path,
                            maintype |-> ty[1], subtype |-> ty[2],
                            headers |-> <<
                              Hdr("Content-Transfer-Encoding", Base64, <<>>),
                              Hdr("Content-Disposition", Attachment, fn)>>]]

\* base.py 126-142: one attachment of the loop; <<>> when it is skipped
AttachOne(att) ==
    LET r == create_attachment(att.file_path, att.filename, att.content_type)
    IN IF ~r.ok THEN <<>>
       ELSE IF att.is_inline /\ Truthy(att.content_id)
       THEN <<[r.part EXCEPT !.headers = @ \o <<
                 Hdr("Content-ID", <<"<">> \o att.content_id.v \o <<">">>, <<>>),
                 Hdr("Content-Disposition", Inline, <<>>)>>]>>
       ELSE <<[r.part EXCEPT !.headers = @ \o <<
                 Hdr("Content-Disposition", Attachment, <<>>)>>]>>

RECURSIVE AttachAllStop(_)
\* the attachment loop without its own try: the first attachment that
\* cannot be built ends the loop
AttachAllStop(atts) ==
    IF atts = <<>> THEN <<>>
    ELSE IF AttachOne(Head(atts)) = <<>> THEN <<>>
    ELSE AttachOne(Head(atts)) \o AttachAllStop(Tail(atts))

RECURSIVE AttachAll(_)
\* base.py 124-142: the parts of the buildable attachments, in list order
AttachAll(atts) ==
    IF atts = <<>> THEN <<>>
    ELSE AttachOne(Head(atts)) \o AttachAll(Tail(atts))

\* ---------------------------------------------------------------- messages
AddrA == <<"a","@","x",".","i","o">>
AddrB == <<"b","@","y",".","i","o">>
\* no top-level label: validate_email rejects it
AddrBad == <<"c","@","z">>
Addrs == {AddrA, AddrB, AddrBad}

SmtpUser == <<"m","@","x",".","i","o">>
Subject == <<"h","i">>

\* EmailAddress = Union[str, List[str]]
ToPool ==
    {List(l) : l \in SeqUpTo(Addrs, MaxRcpt)} \cup {Str(a) : a \in Addrs}
OptPool ==
    {None} \cup {List(l) : l \in SeqUpTo(Addrs, MaxRcpt) \ {<<>>}}
ReplyPool == {None, Str(AddrB)}
\* Dict[str, str], in insertion order
HeaderPool ==
    {None,
     List(<<[name |-> "X-Tag", value |-> <<"v">>],
            [name |-> "Bcc", value |-> AddrA]>>)}

Att(p, fn, ct, cid, inl) ==
    [file_path |-> p, filename |-> fn, content_type |-> ct,
     content_id |-> cid, is_inline |-> inl]
AttPlain == Att(PathNotes, None, None, None, FALSE)
AttGone == Att(PathGone, None, None, None, FALSE)
AttInline == Att(PathLogo, None, None, Str(<<"c","1">>), TRUE)
\* a declared content type without '/': MIMEBase(*['bin']) is a TypeError
AttBadType == Att(PathNotes, Str(<<"r",".","t">>), Str(<<"b","i","n">>), None, FALSE)
AttKinds == {AttPlain, AttGone, AttInline, AttBadType}
AttachmentsPool ==
    {None} \cup {List(l) : l \in SeqUpTo(AttKinds, MaxAtt) \ {<<>>}}

Message(to, cc, bcc, rt, hd, at) ==
    [to_emails |-> to, subject |-> Subject, is_html |-> FALSE,
     from_email |-> None, cc_emails |-> cc, bcc_emails |-> bcc,
     reply_to |-> rt, headers |-> hd, attachments |-> at]

\* recipients of every shape, valid or not, nothing else set
RcptMessages ==
    {Message(to, cc, bcc, None, None, None) :
        to \in ToPool, cc \in OptPool, bcc \in OptPool}

ValidAddrs == {a \in Addrs : validate_email(a)}
ValidTo ==
    {List(l) : l \in SeqUpTo(ValidAddrs, MaxRcpt) \ {<<>>}} \cup {Str(AddrA)}
ValidOpt ==
    {None} \cup {List(l) : l \in SeqUpTo(ValidAddrs, MaxRcpt) \ {<<>>}}

\* valid recipients with every reply-to and extra-headers mapping
HeaderMessages ==
    {Message(to, cc, bcc, rt, hd, None) :
        to \in ValidTo, cc \in ValidOpt, bcc \in ValidOpt,
        rt \in ReplyPool, hd \in HeaderPool}

\* every attachment list, to one recipient with or without a bcc
AttMessages ==
    {Message(List(<<AddrA>>), None, bcc, None, None, at) :
        bcc \in {None, List(<<AddrB>>)}, at \in AttachmentsPool}

DocMessages == HeaderMessages \cup AttMessages

NoMessage == Message(None, None, None, None, None, None)

\* ---------------------------------------------------------------- assembly
H(n, v) == [name |-> n, value |-> v]

Raise(type, text, arg) == [type |-> type, text |-> text, arg |-> arg]
NoExc == Raise("none", "", <<>>)

\* the headers with a Bcc header written from the bcc list
BuildHeadersWithBcc(message, to_emails, cc_emails, bcc_emails) ==
    <<H("From", IF Truthy(message.from_email) THEN message.from_email.v
                ELSE SmtpUser),
      H("To", format_email_list(List(to_emails))),
      H("Subject", message.subject)>>
    \o (IF cc_emails # <<>>
        THEN <<H("Cc", format_email_list(List(cc_emails)))>> ELSE <<>>)
    \o (IF bcc_emails # <<>>
        THEN <<H("Bcc", format_email_list(List(bcc_emails)))>> ELSE <<>>)
    \o (IF Truthy(message.reply_to)
        THEN <<H("Reply-To", message.reply_to.v)>> ELSE <<>>)
    \o (IF Truthy(message.headers) THEN message.headers.v ELSE <<>>)

\* base.py 106-118: the headers of the document, in the order they are set
BuildHeaders(message, to_emails, cc_emails, bcc_emails) ==
    <<H("From", IF Truthy(message.from_email) THEN message.from_email.v
                ELSE SmtpUser),
      H("To", format_email_list(List(to_emails))),
      H("Subject", message.subject)>>
    \o (IF cc_emails # <<>>
        THEN <<H("Cc", format_email_list(List(cc_emails)))>> ELSE <<>>)
    \o (IF Truthy(message.reply_to)
        THEN <<H("Reply-To", message.reply_to.v)>> ELSE <<>>)
    \o (IF Truthy(message.headers) THEN message.headers.v ELSE <<>>)

\* base.py 120-142: the body part, then the attachment parts
BuildParts(message) ==
    <<[kind |-> "body", path |-> <<>>,
       maintype |-> <<"t","e","x","t">>,
       subtype |-> IF message.is_html THEN <<"h","t","m","l">>
                   ELSE <<"p","l","a","i","n">>,
       headers |-> <<>>]>>
    \o (IF Truthy(message.attachments)
        THEN AttachAll(message.attachments.v) ELSE <<>>)

NoDoc == [headers |-> <<>>, parts |-> <<>>]
NoLocals == [to |-> <<>>, cc |-> <<>>, bcc |-> <<>>, doc |-> NoDoc]

\* base.py 99-142: validation and assembly; the locals, or the exception
Assemble(message) ==
    IF ~Truthy(message.to_emails)
    THEN [exc |-> Raise("ValueError",
                        "No recipient email addresses provided", <<>>),
          loc |-> NoLocals]
    ELSE LET to == validate_emails(message.to_emails)
             cc == IF Truthy(message.cc_emails)
                   THEN validate_emails(message.cc_emails)
                   ELSE [ok |-> TRUE, v |-> <<>>, bad |-> <<>>]
             bcc == IF Truthy(message.bcc_emails)
                    THEN validate_emails(message.bcc_emails)
                    ELSE [ok |-> TRUE, v |-> <<>>, bad |-> <<>>]
             Invalid(r) == [exc |-> Raise("ValueError",
                                          "Invalid email address: ", r.bad),
                            loc |-> NoLocals]
         IN IF ~to.ok THEN Invalid(to)
            ELSE IF ~cc.ok THEN Invalid(cc)
            ELSE IF ~bcc.ok THEN Invalid(bcc)
            ELSE [exc |-> NoExc,
                  loc |-> [to |-> to.v, cc |-> cc.v, bcc |-> bcc.v,
                           doc |-> [headers |->
                                      BuildHeaders(message, to.v, cc.v, bcc.v),
                                    parts |-> BuildParts(message)]]]

\* EmailResult
Result(success, text, arg, recipients) ==
    [success |-> success,
     error_message |-> text, error_arg |-> arg,
     recipients |-> recipients]
\* EmailResult(success=False, error_message=str(e))
Failure(e) == Result(FALSE, Str(<<e.text>>), e.arg, None)

\* ------------------------------------------------------------------- state
Threads == {1, 2}

VARIABLES
    config,   \* EmailConfig: use_ssl, use_tls
    server,   \* self._server: 0 is None, else the id of a connection
    conns,    \* the connections opened so far: who opened it, quits issued
    th        \* per thread: the call it is in, its position and its locals;
              \* exc is the exception in flight, log the transport calls
              \* the call has made, pre the handle it found, prev how the
              \* call before it ended
VARIABLES
    filename,   \* the argument of a sanitize_filename call
    sanitized   \* what the call returned, once it has

vars == <<config, server, conns, th, filename, sanitized>>
\* the variables no mailer operation touches
fvars == <<filename, sanitized>>

NotCalled == [done |-> FALSE, v |-> <<>>]

\* A thread outside any call.
Idle ==
    [pc |-> "idle", op |-> "none", message |-> NoMessage, loc |-> NoLocals,
     connected |-> "none", results |-> <<>>, exc |-> NoExc,
     log |-> <<>>, pre |-> 0, prev |-> "none"]

Ev(o, c, ok, rcpt) == [op |-> o, conn |-> c, ok |-> ok, rcpt |-> rcpt]

Init ==
    /\ config \in [use_ssl : BOOLEAN, use_tls : BOOLEAN]
    /\ server = 0
    /\ conns = <<>>
    /\ th = [t \in Threads |-> Idle]
    /\ filename = <<>>
    /\ sanitized = NotCalled

\* calls that may still open a connection
Pending == {t \in Threads : th[t].pc \in {"s_build", "c_open"}}
CanCall == Len(conns) + Cardinality(Pending) < MaxConns

Enter(t, o, p, m) ==
    [Idle EXCEPT !.pc = p, !.op = o, !.message = m, !.pre = server,
                 !.prev = th[t].prev]

\* mailer.connect()
CallConnect(t) ==
    /\ th[t].pc = "idle" /\ CanCall
    /\ th' = [th EXCEPT ![t] = Enter(t, "connect", "c_open", NoMessage)]
    /\ UNCHANGED <<config, server, conns>>
    /\ UNCHANGED fvars

\* mailer.close(), also __exit__
CallClose(t) ==
    /\ th[t].pc = "idle"
    /\ th' = [th EXCEPT ![t] = Enter(t, "close", "k_test", NoMessage)]
    /\ UNCHANGED <<config, server, conns>>
    /\ UNCHANGED fvars

\* mailer.send_email(message), the message any one of pool
CallSend(t, pool) ==
    /\ th[t].pc = "idle" /\ CanCall
    /\ \E m \in pool : th' = [th EXCEPT ![t] = Enter(t, "send", "s_build", m)]
    /\ UNCHANGED <<config, server, conns>>
    /\ UNCHANGED fvars

\* base.py 98-142: validate the addresses and assemble the document
SBuild(t) ==
    /\ th[t].pc = "s_build"
    /\ LET a == Assemble(th[t].message)
       IN th' = [th EXCEPT ![t] =
                   IF a.exc = NoExc
                   THEN [@ EXCEPT !.loc = a.loc, !.pc = "c_open"]
                   ELSE [@ EXCEPT !.exc = a.exc, !.pc = "s_except"]]
    /\ UNCHANGED <<config, server, conns>>
    /\ UNCHANGED fvars

\* send_email going on to sendmail whatever connect() returned
ConnectReturnsIgnored(r, b) ==
    IF r.op = "connect"
    THEN [r EXCEPT !.connected = IF b THEN "true" ELSE "false", !.pc = "done"]
    ELSE [r EXCEPT !.connected = IF b THEN "true" ELSE "false",
                   !.pc = "s_sendmail"]

\* send_email trying connect() again while config.max_retries allows
ConnectReturnsRetry(r, b) ==
    IF r.op = "connect"
    THEN [r EXCEPT !.connected = IF b THEN "true" ELSE "false", !.pc = "done"]
    ELSE IF b
    THEN [r EXCEPT !.connected = "true", !.pc = "s_sendmail"]
    ELSE IF Cardinality({k \in DOMAIN r.log :
                           r.log[k].op \in {"open_plain", "open_ssl"}})
            <= config.max_retries
    THEN [r EXCEPT !.pc = "c_open"]
    ELSE [r EXCEPT !.connected = "false", !.pc = "k_test",
                   !.results = Append(@, Result(FALSE,
                       Str(<<"Failed to connect to SMTP server">>), <<>>, None))]

\* connect() returns b: to its caller, or into send_email (base.py 145-149)
ConnectReturns(r, b) ==
    IF r.op = "connect"
    THEN [r EXCEPT !.connected = IF b THEN "true" ELSE "false", !.pc = "done"]
    ELSE IF b
    THEN [r EXCEPT !.connected = "true", !.pc = "s_sendmail"]
    ELSE [r EXCEPT !.connected = "false", !.pc = "k_test",
                   !.results = Append(@, Result(FALSE,
                       Str(<<"Failed to connect to SMTP server">>), <<>>, None))]

\* connect() with starttls() outside the else: issued whenever use_tls is
\* set, after SMTP_SSL too
COpenTlsAlways(t, ok) ==
    /\ th[t].pc = "c_open"
    /\ LET o == IF config.use_ssl THEN "open_ssl" ELSE "open_plain"
           c == Len(conns) + 1
       IN IF ok
          THEN /\ conns' = Append(conns, [owner |-> t, quits |-> 0])
               /\ server' = c
               /\ th' = [th EXCEPT ![t] =
                    [@ EXCEPT !.log = Append(
                                  IF server # 0
                                  THEN Append(@, Ev("overwrite", server, TRUE, <<>>))
                                  ELSE @,
                                  Ev(o, c, TRUE, <<>>)),
                              !.pc = IF config.use_tls
                                     THEN "c_tls" ELSE "c_login"]]
          ELSE /\ th' = [th EXCEPT ![t] = ConnectReturns(
                    [@ EXCEPT !.log = Append(@, Ev(o, 0, FALSE, <<>>))], FALSE)]
               /\ UNCHANGED <<server, conns>>
    /\ UNCHANGED config
    /\ UNCHANGED fvars

\* base.py 53-64: self._server = smtplib.SMTP_SSL(...) or smtplib.SMTP(...)
COpen(t, ok) ==
    /\ th[t].pc = "c_open"
    /\ LET o == IF config.use_ssl THEN "open_ssl" ELSE "open_plain"
           c == Len(conns) + 1
       IN IF ok
          THEN /\ conns' = Append(conns, [owner |-> t, quits |-> 0])
               /\ server' = c
               /\ th' = [th EXCEPT ![t] =
                    [@ EXCEPT !.log = Append(
                                  IF server # 0
                                  THEN Append(@, Ev("overwrite", server, TRUE, <<>>))
                                  ELSE @,
                                  Ev(o, c, TRUE, <<>>)),
                              !.pc = IF ~config.use_ssl /\ config.use_tls
                                     THEN "c_tls" ELSE "c_login"]]
          ELSE /\ th' = [th EXCEPT ![t] = ConnectReturns(
                    [@ EXCEPT !.log = Append(@, Ev(o, 0, FALSE, <<>>))], FALSE)]
               /\ UNCHANGED <<server, conns>>
    /\ UNCHANGED config
    /\ UNCHANGED fvars

\* base.py 65-66: self._server.starttls()
CStartTls(t, ok) ==
    /\ th[t].pc = "c_tls"
    /\ th' = [th EXCEPT ![t] =
         IF server = 0
         THEN ConnectReturns(@, FALSE)
         ELSE LET r == [@ EXCEPT !.log = Append(@, Ev("starttls", server, ok, <<>>))]
              IN IF ok THEN [r EXCEPT !.pc = "c_login"]
                 ELSE ConnectReturns(r, FALSE)]
    /\ UNCHANGED <<config, server, conns>>
    /\ UNCHANGED fvars

\* base.py 68-75: self._server.login(...); return True, or False on any error
CLogin(t, ok) ==
    /\ th[t].pc = "c_login"
    /\ th' = [th EXCEPT ![t] =
         IF server = 0
         THEN ConnectReturns(@, FALSE)
         ELSE ConnectReturns(
                [@ EXCEPT !.log = Append(@, Ev("login", server, ok, <<>>))], ok)]
    /\ UNCHANGED <<config, server, conns>>
    /\ UNCHANGED fvars

\* the envelope without the bcc addresses
AllRecipientsNoBcc(loc) == loc.to \o loc.cc

\* base.py 152: all_recipients = to_emails + cc_emails + bcc_emails
AllRecipients(loc) == loc.to \o loc.cc \o loc.bcc

\* base.py 152-163: self._server.sendmail(smtp_user, all_recipients, ...)
SSendmail(t, ok) ==
    /\ th[t].pc = "s_sendmail"
    /\ LET all_recipients == AllRecipients(th[t].loc)
       IN th' = [th EXCEPT ![t] =
            IF server = 0
            THEN [@ EXCEPT !.exc = Raise("AttributeError",
                               "'NoneType' object has no attribute 'sendmail'", <<>>),
                           !.pc = "s_except"]
            ELSE LET r == [@ EXCEPT !.log = Append(@,
                               Ev("sendmail", server, ok, all_recipients))]
                 IN IF ok
                    THEN [r EXCEPT !.results = Append(@,
                              Result(TRUE, None, <<>>, List(all_recipients))),
                                   !.pc = "k_test"]
                    ELSE [r EXCEPT !.exc = Raise("SMTPException",
                                       "transmit refused", <<>>),
                                   !.pc = "s_except"]]
    /\ UNCHANGED <<config, server, conns>>
    /\ UNCHANGED fvars

\* a handler for ValueError alone: any other exception leaves send_email
SExceptValueError(t) ==
    /\ th[t].pc = "s_except"
    /\ th' = [th EXCEPT ![t] =
         IF th[t].exc.type = "ValueError"
         THEN [@ EXCEPT !.results = Append(@, Failure(th[t].exc)),
                        !.exc = NoExc, !.pc = "k_test"]
         ELSE [@ EXCEPT !.pc = "k_test"]]
    /\ UNCHANGED <<config, server, conns>>
    /\ UNCHANGED fvars

\* base.py 165-170: except Exception as e: return EmailResult(False, str(e))
SExcept(t) ==
    /\ th[t].pc = "s_except"
    /\ th' = [th EXCEPT ![t] =
         [@ EXCEPT !.results = Append(@, Failure(th[t].exc)),
                   !.exc = NoExc, !.pc = "k_test"]]
    /\ UNCHANGED <<config, server, conns>>
    /\ UNCHANGED fvars

\* base.py 79: if self._server:
KTest(t) ==
    /\ th[t].pc = "k_test"
    /\ th' = [th EXCEPT ![t] =
         [@ EXCEPT !.pc = IF server # 0 THEN "k_quit" ELSE "done"]]
    /\ UNCHANGED <<config, server, conns>>
    /\ UNCHANGED fvars

\* close() without try/finally: an error of quit() leaves close() at once
KQuitRaises(t, ok) ==
    /\ th[t].pc = "k_quit"
    /\ IF server = 0
       THEN /\ th' = [th EXCEPT ![t] = [@ EXCEPT !.pc = "k_clear"]]
            /\ UNCHANGED conns
       ELSE /\ th' = [th EXCEPT ![t] =
                 [@ EXCEPT !.log = Append(@, Ev("quit", server, ok, <<>>)),
                           !.exc = IF ok THEN @
                                   ELSE Raise("SMTPException", "quit failed", <<>>),
                           !.pc = IF ok THEN "k_clear" ELSE "done"]]
            /\ conns' = [conns EXCEPT ![server].quits = @ + 1]
    /\ UNCHANGED <<config, server>>
    /\ UNCHANGED fvars

\* base.py 80-84: self._server.quit(), any Exception logged and dropped
KQuit(t, ok) ==
    /\ th[t].pc = "k_quit"
    /\ IF server = 0
       THEN /\ th' = [th EXCEPT ![t] = [@ EXCEPT !.pc = "k_clear"]]
            /\ UNCHANGED conns
       ELSE /\ th' = [th EXCEPT ![t] =
                 [@ EXCEPT !.log = Append(@, Ev("quit", server, ok, <<>>)),
                           !.pc = "k_clear"]]
            /\ conns' = [conns EXCEPT ![server].quits = @ + 1]
    /\ UNCHANGED <<config, server>>
    /\ UNCHANGED fvars

\* the handle cleared only after a quit() that succeeded (no finally)
KClearKeeps(t) ==
    /\ th[t].pc = "k_clear"
    /\ LET l == th[t].log
           failed == l # <<>> /\ l[Len(l)].op = "quit" /\ ~l[Len(l)].ok
       IN /\ th' = [th EXCEPT ![t] =
                [@ EXCEPT !.log = IF server # 0 /\ ~failed
                                  THEN Append(@, Ev("clear", server, TRUE, <<>>))
                                  ELSE @,
                          !.pc = "done"]]
          /\ server' = IF failed THEN server ELSE 0
    /\ UNCHANGED <<config, conns>>
    /\ UNCHANGED fvars

\* base.py 85-86: finally: self._server = None
KClear(t) ==
    /\ th[t].pc = "k_clear"
    /\ th' = [th EXCEPT ![t] =
         [@ EXCEPT !.log = IF server # 0
                           THEN Append(@, Ev("clear", server, TRUE, <<>>))
                           ELSE @,
                   !.pc = "done"]]
    /\ server' = 0
    /\ UNCHANGED <<config, conns>>
    /\ UNCHANGED fvars

\* The call has returned (pc = "done" shows what it returned and did); the
\* caller goes on and the frame is gone.
Return(t) ==
    /\ th[t].pc = "done"
    /\ th' = [th EXCEPT ![t] =
         [Idle EXCEPT !.prev =
            IF th[t].op # "close" THEN "none"
            ELSE IF \E k \in DOMAIN th[t].log : th[t].log[k].op = "quit"
            THEN "close_quit" ELSE "close_noop"]]
    /\ UNCHANGED <<config, server, conns>>
    /\ UNCHANGED fvars

\* the steps of a call in progress
Step(t) ==
    \/ SBuild(t)
    \/ \E ok \in BOOLEAN : COpen(t, ok)
    \/ \E ok \in BOOLEAN : CStartTls(t, ok)
    \/ \E ok \in BOOLEAN : CLogin(t, ok)
    \/ \E ok \in BOOLEAN : SSendmail(t, ok)
    \/ SExcept(t)
    \/ KTest(t)
    \/ \E ok \in BOOLEAN : KQuit(t, ok)
    \/ KClear(t)
    \/ Return(t)

\* One caller: connect(), close() and send_email() in any order, each call
\* running to its return before the next starts.
Next ==
    \/ CallConnect(1)
    \/ CallClose(1)
    \/ CallSend(1, RcptMessages)
    \/ Step(1)

Spec == Init /\ [][Next]_vars

\* send_quick_email (base.py 264-265): a fresh mailer in a with block, one
\* send_email of a message with headers and attachments, close() on exit.
QuickSend == conns = <<>> /\ CallSend(1, DocMessages)
QuickExit == conns # <<>> /\ CallClose(1)

NextQuick ==
    \/ QuickSend
    \/ QuickExit
    \/ Step(1)

SpecQuick == Init /\ [][NextQuick]_vars

\* send_email_async (base.py 202-213): run_in_executor hands send_email to
\* a pool thread; two calls on one mailer run as two threads over the same
\* self._server, interleaved at every access to it.
AsyncMessages ==
    {Message(List(<<AddrA>>), None, None, None, None, None),
     Message(List(<<AddrBad>>), None, None, None, None, None)}

NextAsync ==
    \E t \in Threads :
        \/ CallSend(t, AsyncMessages)
        \/ Step(t)

SpecAsync == Init /\ [][NextAsync]_vars

\* EmailConfig.max_retries: accepted and stored (types.py 25, default 3),
\* read by nothing in base.py.  The same mailer and caller as Spec, the
\* configuration carrying every retry count up to the default.
DefaultMaxRetries == 3

InitRetry ==
    /\ config \in [use_ssl : BOOLEAN, use_tls : BOOLEAN,
                   max_retries : 0..DefaultMaxRetries]
    /\ server = 0
    /\ conns = <<>>
    /\ th = [t \in Threads |-> Idle]
    /\ filename = <<>>
    /\ sanitized = NotCalled

NextRetry ==
    \/ CallConnect(1)
    \/ CallClose(1)
    \/ CallSend(1, AsyncMessages)
    \/ Step(1)

SpecRetry == InitRetry /\ [][NextRetry]_vars

\* sanitize_filename (utils.py 50-69), called on its own: a pure function
\* of the name it is given.  Names are a lead, a stem and an extension,
\* of lengths around the limit and up to MaxOver characters past it.
MaxOver == 45

Rep(c, n) == [k \in 1..n |-> c]
NameLens ==
    {0, 1, 4}
    \cup (MaxFilenameLen - 1)..(MaxFilenameLen + 1)
    \cup {MaxFilenameLen + MaxOver}
\* the extension counts its dot
FileName(lead, n, m) ==
    lead \o Rep("s", n)
         \o (IF m = 0 THEN <<>> ELSE <<".">> \o Rep("e", m - 1))
FileNames ==
    {FileName(lead, n, m) :
        lead \in {<<>>, <<"<">>, <<".">>}, n \in NameLens, m \in NameLens}

InitSanitize ==
    /\ config \in [use_ssl : {FALSE}, use_tls : {TRUE}]
    /\ server = 0
    /\ conns = <<>>
    /\ th = [t \in Threads |-> Idle]
    /\ filename \in FileNames
    /\ sanitized = NotCalled

SanitizeFilename ==
    /\ ~sanitized.done
    /\ sanitized' = [done |-> TRUE, v |-> sanitize_filename(filename)]
    /\ UNCHANGED <<config, server, conns, th, filename>>

NextSanitize == SanitizeFilename

SpecSanitize == InitSanitize /\ [][NextSanitize]_vars

\* ------------------------------------------------------------------ claims
Log(t) == th[t].log
\* the positions in the log of t's call of the transport calls named in ops
EvIdx(t, ops) == {k \in DOMAIN Log(t) : Log(t)[k].op \in ops}
OpenOps == {"open_plain", "open_ssl"}
ConnectOps == OpenOps \cup {"starttls", "login"}
TransportOps == ConnectOps \cup {"sendmail"}

ListOf(x) == IF x.kind = "none" THEN <<>> ELSE AsList(x)
\* to followed by cc followed by bcc, as the caller gave them
Addresses(m) ==
    ListOf(m.to_emails) \o ListOf(m.cc_emails) \o ListOf(m.bcc_emails)
InvalidMessage(m) ==
    \/ ListOf(m.to_emails) = <<>>
    \/ \E k \in DOMAIN Addresses(m) : ~validate_email(Addresses(m)[k])

IsFailure(r) == ~r.success /\ Truthy(r.error_message)
SendReturned(t) == th[t].op = "send" /\ th[t].pc = "done"
\* the transport accepted every call made so far
Accepted(t) == \A k \in EvIdx(t, TransportOps) : Log(t)[k].ok
Transmitted(t) == EvIdx(t, {"sendmail"}) # {}

\* C1: a send_email whose message has no `to`, or an address in to, cc or
\* bcc that validate_email rejects, makes no transport call that opens,
\* upgrades, authenticates or transmits, and returns a failure Result with
\* the error text set.
C1_InvalidNeverConnects ==
    \A t \in Threads :
        th[t].op = "send" /\ InvalidMessage(th[t].message) =>
            /\ EvIdx(t, TransportOps) = {}
            /\ th[t].pc = "done" =>
                 /\ Len(th[t].results) = 1
                 /\ IsFailure(th[t].results[1])

\* an invalid bcc address behind a valid to: the call has returned
C1_Witness ==
    \E t \in Threads :
        /\ SendReturned(t)
        /\ th[t].message.to_emails = List(<<AddrA>>)
        /\ th[t].message.bcc_emails = List(<<AddrBad>>)
        /\ IsFailure(th[t].results[1])

\* C2: when send_email has returned, on any path and whatever handle it
\* found, self._server is None.
C2_HandleNullAfterSend ==
    \A t \in Threads : SendReturned(t) => server = 0

\* a send on a mailer that was connected, whose quit() raised
C2_Witness ==
    \E t \in Threads :
        /\ SendReturned(t)
        /\ th[t].pre # 0
        /\ \E k \in EvIdx(t, {"quit"}) : ~Log(t)[k].ok

\* C3: when connect() returns False, self._server is None.
C3_ConnectFailureLeavesNull ==
    \A t \in Threads :
        /\ th[t].connected = "false"
        /\ \/ th[t].op = "connect" /\ th[t].pc = "done"
           \/ th[t].op = "send" /\ th[t].pc = "k_test"
        => server = 0

\* C4: every transport call a send_email makes, and every handle it
\* overwrites or clears, is on a connection that this same invocation
\* opened.
C4_ExclusiveConnection ==
    \A t \in Threads : \A k \in DOMAIN Log(t) :
        Log(t)[k].conn # 0 => conns[Log(t)[k].conn].owner = t

\* C5: a valid message over a transport that accepts every call returns
\* one success Result whose recipients are to + cc + bcc, and sendmail was
\* called once, with that same list as the envelope.
C5_SuccessRecipients ==
    \A t \in Threads :
        SendReturned(t) /\ ~InvalidMessage(th[t].message) /\ Accepted(t) =>
            /\ th[t].results =
                 <<Result(TRUE, None, <<>>, List(Addresses(th[t].message)))>>
            /\ Cardinality(EvIdx(t, {"sendmail"})) = 1
            /\ \A k \in EvIdx(t, {"sendmail"}) :
                 Log(t)[k].rcpt = Addresses(th[t].message)

\* a success with one address in each of to, cc and bcc
C5_Witness ==
    \E t \in Threads :
        /\ SendReturned(t)
        /\ th[t].results[1].success
        /\ th[t].message.to_emails = List(<<AddrA>>)
        /\ th[t].message.cc_emails = List(<<AddrB>>)
        /\ th[t].message.bcc_emails = List(<<AddrA>>)

\* the header values of the document of t's call
HeaderValues(t) ==
    {th[t].loc.doc.headers[k].value : k \in DOMAIN th[t].loc.doc.headers}
BccOf(t) ==
    {ListOf(th[t].message.bcc_emails)[k] :
        k \in DOMAIN ListOf(th[t].message.bcc_emails)}
\* what the caller asked to have in headers
CallerHeaderTexts(m) ==
    {ListOf(m.to_emails)[k] : k \in DOMAIN ListOf(m.to_emails)}
    \cup {ListOf(m.cc_emails)[k] : k \in DOMAIN ListOf(m.cc_emails)}
    \cup {IF Truthy(m.from_email) THEN m.from_email.v ELSE SmtpUser,
          m.subject}
    \cup (IF Truthy(m.reply_to) THEN {m.reply_to.v} ELSE {})
    \cup (IF Truthy(m.headers)
          THEN {m.headers.v[k].value : k \in DOMAIN m.headers.v} ELSE {})

\* C6, as stated: in a transmitted document no header contains a bcc
\* address, whatever to, cc, reply-to and extra headers are.
C6_NoBccInAnyHeader ==
    \A t \in Threads :
        Transmitted(t) =>
            \A b \in BccOf(t) : \A v \in HeaderValues(t) : ~Contains(v, b)

\* C6, amended: in a transmitted document a header contains a bcc address
\* only if the caller gave that address in to, cc, from, subject, reply-to
\* or an extra header; no header is written from the bcc list.
C6_BccOnlyWhereCallerPutIt ==
    \A t \in Threads :
        Transmitted(t) =>
            \A b \in BccOf(t) : \A v \in HeaderValues(t) :
                Contains(v, b) =>
                    \E c \in CallerHeaderTexts(th[t].message) : Contains(c, b)

\* transmitted with cc and bcc set, the bcc address in no header
C6_Witness ==
    \E t \in Threads :
        /\ Transmitted(t)
        /\ th[t].message.cc_emails # None
        /\ BccOf(t) # {}
        /\ \A b \in BccOf(t) : \A v \in HeaderValues(t) : ~Contains(v, b)

\* something failed in t's call: validation, or a transport call raised
Failed(t) ==
    \/ InvalidMessage(th[t].message)
    \/ \E k \in EvIdx(t, TransportOps) : ~Log(t)[k].ok

\* C7: send_email returns with no exception in flight and exactly one
\* Result; if validation or any transport call failed, that Result is a
\* failure with the error text set.
C7_NeverPropagates ==
    \A t \in Threads :
        /\ Len(th[t].results) <= 1
        /\ SendReturned(t) =>
             /\ th[t].exc = NoExc
             /\ Len(th[t].results) = 1
             /\ Failed(t) => IsFailure(th[t].results[1])

\* a send whose sendmail raised
C7_Witness ==
    \E t \in Threads :
        /\ SendReturned(t)
        /\ \E k \in EvIdx(t, {"sendmail"}) : ~Log(t)[k].ok
        /\ IsFailure(th[t].results[1])

AttList(m) == IF Truthy(m.attachments) THEN m.attachments.v ELSE <<>>
\* the file exists and the content type, when declared, has a '/'
Buildable(att) ==
    /\ att.file_path \in Files
    /\ att.content_type.kind = "none" \/ Contains(att.content_type.v, <<"/">>)
IsAttachmentPart(p) == p.kind = "attachment"
HasContentId(p) == \E k \in DOMAIN p.headers : p.headers[k].name = "Content-ID"
DocBuilt(t) == th[t].op = "send" /\ th[t].loc.doc # NoDoc

\* C8: with valid addresses, the attachment parts of the document are the
\* buildable attachments in list order, the others left out; the send
\* goes on to connect, and succeeds when the transport accepts.
C8_UnbuildableAttachmentSkipped ==
    \A t \in Threads :
        /\ DocBuilt(t) =>
             LET want == SelectSeq(AttList(th[t].message), Buildable)
                 got == SelectSeq(th[t].loc.doc.parts, IsAttachmentPart)
             IN /\ Len(got) = Len(want)
                /\ \A k \in DOMAIN want :
                     /\ got[k].path = want[k].file_path
                     /\ HasContentId(got[k]) <=>
                          (want[k].is_inline /\ Truthy(want[k].content_id))
        /\ SendReturned(t) /\ ~InvalidMessage(th[t].message) =>
             /\ EvIdx(t, OpenOps) # {}
             /\ Accepted(t) => Transmitted(t) /\ th[t].results[1].success

\* a success whose first attachment is missing and whose second is built
C8_Witness ==
    \E t \in Threads :
        /\ SendReturned(t)
        /\ th[t].results[1].success
        /\ th[t].message.attachments = List(<<AttGone, AttInline>>)
        /\ Len(th[t].loc.doc.parts) = 2

\* C9: in a send_email, sendmail is called only after connect() returned
\* True (a login that succeeded comes before it in the call); when
\* connect() returned False there is no sendmail and the Result is a
\* failure.
C9_TransmitOnlyAfterConnect ==
    \A t \in Threads :
        th[t].op = "send" =>
            /\ \A k \in EvIdx(t, {"sendmail"}) :
                 /\ th[t].connected = "true"
                 /\ \E j \in EvIdx(t, {"login"}) : j < k /\ Log(t)[j].ok
            /\ th[t].connected = "false" =>
                 /\ ~Transmitted(t)
                 /\ Len(th[t].results) = 1
                 /\ IsFailure(th[t].results[1])

\* a send that opened a connection, failed to log in, and has returned
C9_Witness ==
    \E t \in Threads :
        /\ SendReturned(t)
        /\ th[t].connected = "false"
        /\ \E k \in EvIdx(t, {"login"}) : ~Log(t)[k].ok

\* C10: when close() has returned, self._server is None and no exception
\* is in flight; it called quit() once, on the handle it found, if that
\* handle was not None, and did nothing at all if it was None; a close()
\* right after a close() calls no quit().
C10_CloseShutsDownOnce ==
    \A t \in Threads :
        th[t].op = "close" /\ th[t].pc = "done" =>
            /\ server = 0
            /\ th[t].exc = NoExc
            /\ Cardinality(EvIdx(t, {"quit"})) = IF th[t].pre # 0 THEN 1 ELSE 0
            /\ \A k \in EvIdx(t, {"quit"}) : Log(t)[k].conn = th[t].pre
            /\ th[t].pre = 0 => Log(t) = <<>>
            /\ th[t].prev # "none" => EvIdx(t, {"quit"}) = {}

\* a close() right after a close() that shut a connection down
C10_Witness ==
    \E t \in Threads :
        /\ th[t].op = "close" /\ th[t].pc = "done"
        /\ th[t].prev = "close_quit"

\* C11: a send_email opens at most one connection, calls sendmail at most
\* once and quit at most once, whatever max_retries is and whichever step
\* fails: nothing is tried a second time.
C11_OneAttemptPerSend ==
    \A t \in Threads :
        th[t].op = "send" =>
            /\ Cardinality(EvIdx(t, OpenOps)) <= 1
            /\ Cardinality(EvIdx(t, {"sendmail"})) <= 1
            /\ Cardinality(EvIdx(t, {"quit"})) <= 1

\* max_retries = 3, the open refused, the call has returned
C11_Witness ==
    \E t \in Threads :
        /\ SendReturned(t)
        /\ config.max_retries = DefaultMaxRetries
        /\ \E k \in EvIdx(t, OpenOps) : ~Log(t)[k].ok

EndsWith(s, x) ==
    Len(x) <= Len(s) /\ SubSeq(s, Len(s) - Len(x) + 1, Len(s)) = x

\* C12: the sanitized name has at most 255 characters; when the name after
\* replacement has more, the result has exactly 255 and ends with the whole
\* extension of that name, whatever the lengths of stem and extension.
C12_SanitizedFitsAndKeepsExtension ==
    sanitized.done =>
        LET replaced == ReplaceUnsafe(filename)
        IN /\ Len(sanitized.v) <= MaxFilenameLen
           /\ Len(replaced) > MaxFilenameLen =>
                /\ Len(sanitized.v) = MaxFilenameLen
                /\ EndsWith(sanitized.v, splitext(replaced)[2])

\* the transport calls of connect(), in call order, in t's call
ConnectCalls(t) == SelectSeq(Log(t), LAMBDA ev : ev.op \in ConnectOps)
ConnectReturned(t) == th[t].connected # "none"

\* C13: connect() opens with SMTP_SSL and never calls starttls when
\* use_ssl is set (use_tls set or not); otherwise it opens with SMTP and
\* calls starttls if and only if use_tls is set; login is called only
\* after the open, and the starttls when there is one, succeeded; and
\* connect() returns True only after login succeeded.  So the transport
\* calls of a connect() are a prefix of open, [starttls,] login, each
\* after the success of the one before.
C13_ConnectOrder ==
    \A t \in Threads :
        LET cc == ConnectCalls(t)
            upgrade == ~config.use_ssl /\ config.use_tls
            plan == <<IF config.use_ssl THEN "open_ssl" ELSE "open_plain">>
                    \o (IF upgrade THEN <<"starttls">> ELSE <<>>)
                    \o <<"login">>
        IN /\ Len(cc) <= Len(plan)
           /\ \A k \in DOMAIN cc :
                /\ cc[k].op = plan[k]
                /\ k < Len(cc) => cc[k].ok
           /\ ConnectReturned(t) =>
                /\ Len(cc) >= 1
                /\ Len(cc) < Len(plan) => ~cc[Len(cc)].ok
           /\ th[t].connected = "true" =>
                Len(cc) = Len(plan) /\ cc[Len(cc)].ok

\* use_ssl and use_tls both set, connect() has returned True
C13_Witness ==
    \E t \in Threads :
        /\ config.use_ssl /\ config.use_tls
        /\ th[t].connected = "true"
        /\ Len(ConnectCalls(t)) = 2

CloseReturned(t) == th[t].op = "close" /\ th[t].pc = "done"

\* C14: when a close() that ends a sequence of connect(), send_email()
\* and close() calls has returned, quit() has been called exactly once on
\* every connection opened so far.
C14_EveryConnectionShutDownOnce ==
    \A t \in Threads :
        CloseReturned(t) => \A c \in DOMAIN conns : conns[c].quits = 1

\* the values of the Content-Disposition headers of a part, in order
Dispositions(p) ==
    SelectSeq(p.headers, LAMBDA h : h.name = "Content-Disposition")
\* the filename create_attachment resolves
ResolvedName(att) ==
    IF att.filename.kind = "none" THEN PathName(att.file_path)
    ELSE att.filename.v

\* C15: every attachment part of the document has exactly one
\* Content-Disposition header: `inline`, with a Content-ID header, for an
\* attachment flagged inline that has a content id, and `attachment` with
\* the resolved filename for every other.
C15_OneContentDisposition ==
    \A t \in Threads :
        DocBuilt(t) =>
            LET want == SelectSeq(AttList(th[t].message), Buildable)
                got == SelectSeq(th[t].loc.doc.parts, IsAttachmentPart)
            IN \A k \in DOMAIN got :
                 LET d == Dispositions(got[k])
                 IN /\ Len(d) = 1
                    /\ IF want[k].is_inline /\ Truthy(want[k].content_id)
                       THEN d[1].value = Inline /\ HasContentId(got[k])
                       ELSE /\ d[1].value = Attachment
                            /\ d[1].filename = ResolvedName(want[k])

====
